---------------------------- MODULE Spec2Model ----------------------------
(***************************************************************************)
(* The phase execution engine of arago.common.processor.Processor:         *)
(* process_issue / apply_all_plugins_on_value / test_plugins_on_value /    *)
(* execute_plugin_with_context / decide_on_plugin.                         *)
(*                                                                         *)
(* Strings are sequences of characters, so that sorted(), str.endswith()   *)
(* and str.split(':') are computed rather than assumed.  A class name is   *)
(* kept as one token (a Python identifier holds no ':').                   *)
(* Plugins and the arbiter are external code: what a test returns, what an *)
(* act writes and whether either raises are chosen nondeterministically.   *)
(***************************************************************************)
EXTENDS Naturals, Integers, Sequences, FiniteSets, TLC

\* ------------------------------------------------------------------ bounds
\* longest list of contexts one plugin test returns
MaxCtxList == 2
\* how many times acts of one pass may write a foreign phase name
MaxJumps == 1
\* the configured reward increment (the auto_reward constructor argument)
AutoReward == 2

\* ------------------------------------------------------- strings, sorting
\* the characters of the phase names, in code point order
Alphabet == <<"-", "0", "1", "2", "9", "a", "e", "i", "l", "n", "p", "r", "t", "v">>

Ord(c) == CHOOSE i \in 1..Len(Alphabet) : Alphabet[i] = c

RECURSIVE StrLess(_, _)
\* Python's < on str: lexicographic by code point, a proper prefix is smaller
StrLess(a, b) ==
    IF a = <<>> THEN b # <<>>
    ELSE IF b = <<>> THEN FALSE
    ELSE IF Head(a) = Head(b) THEN StrLess(Tail(a), Tail(b))
    ELSE Ord(Head(a)) < Ord(Head(b))

RECURSIVE sortedDescending(_)
\* a sort with the comparison the wrong way round
sortedDescending(S) ==
    IF S = {} THEN <<>>
    ELSE LET m == CHOOSE x \in S : \A y \in S \ {x} : StrLess(y, x)
         IN  <<m>> \o sortedDescending(S \ {m})

RECURSIVE sorted(_)
\* sorted(keys): ascending sequence of the set S of strings
sorted(S) ==
    IF S = {} THEN <<>>
    ELSE LET m == CHOOSE x \in S : \A y \in S \ {x} : StrLess(x, y)
         IN  <<m>> \o sorted(S \ {m})

\* str.endswith
endswith(s, suffix) ==
    /\ Len(s) >= Len(suffix)
    /\ SubSeq(s, Len(s) - Len(suffix) + 1, Len(s)) = suffix

ParallelSuffix == <<"-", "p", "a", "r", "a", "l", "l", "e", "l">>
AlternativeSuffix == <<"-", "a", "l", "t", "e", "r", "n", "a", "t", "i", "v", "e">>

RECURSIVE split(_)
\* str.split(':'): the segments between the ':' characters
split(s) ==
    IF \A i \in 1..Len(s) : s[i] # ":" THEN <<s>>
    ELSE LET k == CHOOSE i \in 1..Len(s) :
                     s[i] = ":" /\ \A j \in 1..(i - 1) : s[j] # ":"
         IN  <<SubSeq(s, 1, k - 1)>> \o split(SubSeq(s, k + 1, Len(s)))

Range(s) == {s[i] : i \in 1..Len(s)}

\* ------------------------------------------------- the plugin registry
\* self.plugins: phase name -> list of plugin instances (walk_package
\* registers a phase only when it found at least one plugin)
PhaseSeq == <<"1", "0">>
PhaseAlt == <<"2", "0">> \o AlternativeSuffix
PhasePar == <<"9">> \o ParallelSuffix

plugins ==
    (PhaseSeq :> <<"p1", "p2">>) @@
    (PhaseAlt :> <<"p3", "p4", "p5">>) @@
    (PhasePar :> <<"p6", "p7">>)

\* type(x).__name__ : two instances may share a class name
TypeName(x) ==
    CASE x = "p1" -> "KOne"
      [] x = "p2" -> "KTwo"
      [] x = "p3" -> "KAlt"
      [] x = "p4" -> "KOther"
      [] x = "p5" -> "KAlt"
      [] x = "p6" -> "KSix"
      [] x = "p7" -> "KSeven"

\* a phase name no phase is registered under
UnknownPhase == <<"n", "i", "l">>
\* the value of issue['_current_phase'] before the engine first writes it
NoPhase == <<>>

\* ---------------------------------------------------------------- contexts
\* context values: a Python value with its str()
CtxA == [type |-> "str", repr |-> <<"A">>]
CtxColon == [type |-> "str", repr |-> <<"B", ":", "C">>]
Contexts == {CtxA, CtxColon}

\* the contexts a plugin's test can yield (a context is a token meaningful
\* only to its plugin); p3 and p5 can yield contexts with the same label
ContextsOf(x) ==
    IF x = "p3" THEN Contexts ELSE {CtxA}

\* str(y)
str(y) == y.repr

\* what plugin.test(issue) may do: raise, or return a falsy value, a single
\* truthy non-list value, or a list of contexts
CtxLists(x) == UNION {[1..n -> ContextsOf(x)] : n \in 0..MaxCtxList}
TestResults(x) ==
    {[k |-> "raise"], [k |-> "falsy"]}
      \cup {[k |-> "value", c |-> c] : c \in ContextsOf(x)}
      \cup {[k |-> "list", l |-> l] : l \in CtxLists(x)}

\* `if contexts:`
Truthy(r) ==
    \/ r.k = "value"
    \/ r.k = "list" /\ Len(r.l) > 0


\* --------------------------------------------------- candidate set builder
\* a builder that appends the contexts of a list back to front
PluginCandidatesReversed(x, r) ==
    IF r.k = "raise" \/ ~Truthy(r) THEN <<>>
    ELSE IF r.k = "list" THEN [i \in 1..Len(r.l) |-> <<x, r.l[Len(r.l) + 1 - i]>>]
    ELSE <<<<x, r.c>>>>

\* one plugin's contribution to passed_test_plugins (lines 139-147)
PluginCandidates(x, r) ==
    IF r.k = "raise" \/ ~Truthy(r) THEN <<>>
    ELSE IF r.k = "list" THEN [i \in 1..Len(r.l) |-> <<x, r.l[i]>>]
    ELSE <<<<x, r.c>>>>

RECURSIVE TestLoopAbortOnRaise(_, _)
\* a loop whose try/except encloses the for statement instead of its body
TestLoopAbortOnRaise(res, plugs) ==
    IF plugs = <<>> \/ res[Head(plugs)].k = "raise"
    THEN [passed |-> <<>>,
          tested |-> IF plugs = <<>> THEN <<>> ELSE <<Head(plugs)>>]
    ELSE LET rest == TestLoopAbortOnRaise(res, Tail(plugs))
         IN  [passed |-> PluginCandidates(Head(plugs), res[Head(plugs)]) \o rest.passed,
              tested |-> <<Head(plugs)>> \o rest.tested]

RECURSIVE test_plugins_on_value(_, _)
\* test_plugins_on_value: res[x] is what plugin x's test does in this call;
\* passed is the returned list, tested the plugins whose test was called
test_plugins_on_value(res, plugs) ==
    IF plugs = <<>> THEN [passed |-> <<>>, tested |-> <<>>]
    ELSE LET rest == test_plugins_on_value(res, Tail(plugs))
         IN  [passed |-> PluginCandidates(Head(plugs), res[Head(plugs)]) \o rest.passed,
              tested |-> <<Head(plugs)>> \o rest.tested]

\* list.remove(a): drops the first element equal to a
ListRemove(s, a) ==
    LET k == CHOOSE i \in 1..Len(s) : s[i] = a /\ \A j \in 1..(i - 1) : s[j] # a
    IN  SubSeq(s, 1, k - 1) \o SubSeq(s, k + 1, Len(s))

\* a builder that forgets to take the pairs already run out of the list
RemoveNothing(poss, executed) == poss

RECURSIVE RemoveExecuted(_, _)
\* for a in any_executed: if a in possible: possible.remove(a)
RemoveExecuted(poss, executed) ==
    IF executed = <<>> THEN poss
    ELSE RemoveExecuted(
             IF Head(executed) \in Range(poss) THEN ListRemove(poss, Head(executed))
             ELSE poss,
             Tail(executed))

\* ------------------------------------------------------------- the arbiter
\* type(x).__name__ + ':' + str(y)
Label(cand) == <<TypeName(cand[1])>> \o <<":">> \o str(cand[2])

PossibleKIs(poss) == [i \in 1..Len(poss) |-> Label(poss[i])]

\* labels the arbiter may answer with besides the offered ones
BogusLabel == <<"KNone", ":", "A">>
NoColonLabel == <<"KAlt">>
Decisions(poss) == Range(PossibleKIs(poss)) \cup {BogusLabel, NoColonLabel}

\* [(x, y) for x, y in possible if type(x).__name__ == best_plugin and str(y) == best_context]
Matches(poss, best_plugin, best_context) ==
    SelectSeq(poss, LAMBDA c : <<TypeName(c[1])>> = best_plugin /\ str(c[2]) = best_context)

\* an engine that falls back to the first candidate when the label resolves to none
decide_on_plugin_fallback(arbiter, poss, decision) ==
    IF ~arbiter THEN [raised |-> FALSE, p |-> poss[1]]
    ELSE LET parts == split(decision)
         IN  IF Len(parts) # 2 \/ Matches(poss, parts[1], parts[2]) = <<>>
             THEN [raised |-> FALSE, p |-> poss[1]]
             ELSE [raised |-> FALSE, p |-> Matches(poss, parts[1], parts[2])[1]]

\* an engine that takes the last candidate when no arbiter is configured
decide_on_plugin_last(arbiter, poss, decision) ==
    IF ~arbiter THEN [raised |-> FALSE, p |-> poss[Len(poss)]]
    ELSE LET parts == split(decision)
         IN  IF Len(parts) # 2 THEN [raised |-> TRUE, p |-> poss[1]]
             ELSE IF Matches(poss, parts[1], parts[2]) = <<>>
                  THEN [raised |-> TRUE, p |-> poss[1]]
                  ELSE [raised |-> FALSE, p |-> Matches(poss, parts[1], parts[2])[1]]

\* decide_on_plugin: raised when the unpacking of decision.split(':') fails
\* (ValueError) or no candidate matches (IndexError); p is the returned pair
decide_on_plugin(arbiter, poss, decision) ==
    IF ~arbiter THEN [raised |-> FALSE, p |-> poss[1]]
    ELSE LET parts == split(decision)
         IN  IF Len(parts) # 2 THEN [raised |-> TRUE, p |-> poss[1]]
             ELSE IF Matches(poss, parts[1], parts[2]) = <<>>
                  THEN [raised |-> TRUE, p |-> poss[1]]
                  ELSE [raised |-> FALSE, p |-> Matches(poss, parts[1], parts[2])[1]]


\* ------------------------------------------------------------------- state
VARIABLES
    pc,                   \* position of the pass in process_issue
    ds,                   \* self.ds is set: an arbiter is configured
    auto_reward,          \* self.auto_reward
    issue,                \* the engine-owned fields of the issue
    dirs,                 \* sorted phase names (index 0 of the code is index 1)
    current_dirno,
    directory,
    any_executed,
    len_already_executed,
    possible,
    idx,                  \* position of `for p in possible` (parallel)
    p,                    \* the pair decide_on_plugin returned
    \* history, not read by the engine
    log,                  \* phase names in the order they were invoked
    acts,                 \* pairs whose act was called in this invocation
    roundBase,            \* Len(acts) when the current round started
    cands,                \* possible as built for the current round
    tested,               \* plugins whose test was called by the last build
    raisedTests,          \* plugins whose test raised in the build of this round
    everMatched,          \* pairs some test of this sequential invocation yielded
    lastFailed,           \* the pair whose act raised last in this invocation
    setTo,                \* names acts of this invocation wrote to _current_phase
    jumps,                \* writes of a foreign phase name in this pass
    violation,            \* the arbiter answered with a label of no candidate
    decided,              \* calls of ds.decide in this invocation
    finished              \* calls of ds.finish_episode

engine == <<pc, ds, auto_reward, issue, dirs, current_dirno, directory,
            any_executed, len_already_executed, possible, idx, p>>
history == <<log, acts, roundBase, cands, tested, raisedTests, everMatched,
             lastFailed, setTo, jumps, violation, decided, finished>>
vars == <<engine, history>>

PhaseNames == DOMAIN plugins
\* an act leaves _current_phase alone or writes some name into it
NoWrite == <<"k", "e", "e", "p">>
ActWrites == {NoWrite, UnknownPhase} \cup PhaseNames
NoPair == <<"none", CtxA>>

Init ==
    /\ pc = "start"
    /\ ds \in BOOLEAN
    /\ auto_reward = AutoReward
    \* the caller's issue: fresh, or carrying the fields of an earlier pass
    /\ issue \in {[_current_phase |-> NoPhase, _reward |-> 0],
                  [_current_phase |-> PhasePar, _reward |-> AutoReward]}
    /\ dirs = <<>>
    /\ current_dirno = 0
    /\ directory = NoPhase
    /\ any_executed = <<>>
    /\ len_already_executed = 0
    /\ possible = <<>>
    /\ idx = 1
    /\ p = NoPair
    /\ log = <<>>
    /\ acts = <<>>
    /\ roundBase = 0
    /\ cands = <<>>
    /\ tested = <<>>
    /\ raisedTests = {}
    /\ everMatched = {}
    /\ lastFailed = NoPair
    /\ setTo = {}
    /\ jumps = 0
    /\ violation = FALSE
    /\ decided = 0
    /\ finished = 0


\* ------------------------------------------------------------ engine steps
IsParallel(dir) == endswith(dir, ParallelSuffix)
IsAlternative(dir) == ~IsParallel(dir) /\ endswith(dir, AlternativeSuffix)

\* execute_plugin_with_context: plugin.process may write w to _current_phase
\* and may raise (exc); `except Exception` keeps the exception from the caller
execute_plugin_with_context(iss, w, exc) ==
    [issue |-> [iss EXCEPT !._current_phase = IF w = NoWrite THEN @ ELSE w],
     propagated |-> FALSE]

\* a loop that goes on with the next candidate without testing again
RoundEndSkipsRetest(phase, dir, nexecuted, nalready) ==
    IF phase # dir THEN "phaseend" ELSE "seq"

\* a loop without the check of line 115
RoundEndIgnoresJump(phase, dir, nexecuted, nalready) ==
    IF nexecuted = nalready THEN "phaseend" ELSE "round"

\* lines 115-118, after the policy branch of a round
RoundEndPc(phase, dir, nexecuted, nalready) ==
    IF phase # dir THEN "phaseend"
    ELSE IF nexecuted = nalready THEN "phaseend"
    ELSE "round"

\* a for loop that leaves the batch as soon as an act has redirected the issue
ParallelStopsOnJump(i, poss, phase, dir) == i < Len(poss) /\ phase = dir

\* `for p in possible` (line 103): the loop goes on while elements are left
ParallelContinues(i, poss, phase, dir) == i < Len(poss)

\* an alternative branch that loops instead of leaving the while
AlternativeContinues(phase, dir) == "round"

\* line 109: break
AlternativeNextPc(phase, dir) == "phaseend"

\* a reward granted per executed act instead of per phase
RewardPerAct(reward, increment, nacts) == reward + increment * nacts

\* line 119
RewardAfterPhase(reward, increment, nacts) == reward + increment

\* an orchestrator that ignores the redirection
NextDirnoLinear(dirno, phase, dir, names) == dirno + 1

\* an orchestrator that runs the phase again when the name is unknown
NextDirnoStay(dirno, phase, dir, names) ==
    IF phase = dir THEN dirno + 1
    ELSE IF phase \in Range(names)
         THEN (CHOOSE i \in 1..Len(names) : names[i] = phase) - 1
         ELSE dirno

\* lines 120-123; dirs_lookup.get(phase, dirno + 1)
NextDirno(dirno, phase, dir, names) ==
    IF phase = dir THEN dirno + 1
    ELSE IF phase \in Range(names)
         THEN (CHOOSE i \in 1..Len(names) : names[i] = phase) - 1
         ELSE dirno + 1

\* the history of one act call
Acted(cand, w, exc) ==
    /\ w \in {NoWrite, directory} \/ jumps < MaxJumps
    /\ acts' = Append(acts, cand)
    /\ lastFailed' = IF exc THEN cand ELSE lastFailed
    /\ setTo' = IF w = NoWrite THEN setTo ELSE setTo \cup {w}
    /\ jumps' = IF w \in {NoWrite, directory} THEN jumps ELSE jumps + 1

\* lines 84-87
Start ==
    /\ pc = "start"
    /\ dirs' = sorted(PhaseNames)
    /\ current_dirno' = 0
    /\ issue' = [issue EXCEPT !._reward = 0]
    /\ pc' = "while"
    /\ UNCHANGED <<ds, auto_reward, directory, any_executed, len_already_executed,
                   possible, idx, p, history>>

\* lines 88-92
PhaseStart ==
    /\ pc = "while"
    /\ current_dirno < Len(dirs)
    /\ directory' = dirs[current_dirno + 1]
    /\ issue' = [issue EXCEPT !._current_phase = dirs[current_dirno + 1]]
    /\ any_executed' = <<>>
    /\ pc' = "round"
    /\ log' = Append(log, dirs[current_dirno + 1])
    /\ setTo' = {}
    /\ UNCHANGED <<ds, auto_reward, dirs, current_dirno, len_already_executed,
                   possible, idx, p>>
    /\ UNCHANGED <<acts, roundBase, cands, tested, raisedTests, everMatched,
                   lastFailed, jumps, violation, decided, finished>>

\* one outcome of test() for every plugin of the list
AllTestResults(plugs) ==
    {res \in [Range(plugs) -> UNION {TestResults(x) : x \in Range(plugs)}] :
        \A x \in Range(plugs) : res[x] \in TestResults(x)}

\* lines 94-101 and the choice of the policy branch
BuildCandidates ==
    /\ pc = "round"
    /\ \E res \in AllTestResults(plugins[directory]) :
         LET t == test_plugins_on_value(res, plugins[directory])
             poss == RemoveExecuted(t.passed, any_executed)
         IN  /\ len_already_executed' = Len(any_executed)
             /\ possible' = poss
             /\ pc' = IF Len(poss) < 1 THEN "phaseend"
                      ELSE IF IsParallel(directory) THEN "par"
                      ELSE IF IsAlternative(directory) THEN "alt"
                      ELSE "seq"
             /\ cands' = poss
             /\ tested' = t.tested
             /\ raisedTests' = IF Len(poss) < 1 THEN {}
                               ELSE {x \in Range(plugins[directory]) : res[x].k = "raise"}
             /\ everMatched' = IF IsParallel(directory) \/ IsAlternative(directory)
                               THEN everMatched
                               ELSE everMatched \cup Range(t.passed)
    /\ idx' = 1
    /\ roundBase' = Len(acts)
    /\ UNCHANGED <<ds, auto_reward, issue, dirs, current_dirno, directory,
                   any_executed, p>>
    /\ UNCHANGED <<log, acts, lastFailed, setTo, jumps, violation, decided, finished>>

\* the round is over (lines 115-118 reached): possible is not read again
\* before line 95 reassigns it, so its old value is dropped here together
\* with the history of the round that ended
NextRound(nextpc, poss, i) ==
    /\ possible' = IF nextpc = "par" THEN poss ELSE <<>>
    /\ idx' = IF nextpc = "par" THEN i ELSE 1
    /\ cands' = IF nextpc = "par" THEN cands ELSE <<>>
    /\ tested' = IF nextpc = "par" THEN tested ELSE <<>>
    /\ raisedTests' = IF nextpc = "par" THEN raisedTests ELSE {}
    /\ roundBase' = IF nextpc = "par" THEN roundBase ELSE Len(acts')

\* lines 103-105, one element of the batch; after the last one lines 115-118
ExecParallel ==
    /\ pc = "par"
    /\ \E w \in ActWrites, exc \in BOOLEAN :
         LET r == execute_plugin_with_context(issue, w, exc)
             nextpc == IF r.propagated THEN "aborted"
                       ELSE IF ParallelContinues(idx, possible, r.issue._current_phase, directory)
                            THEN "par"
                            ELSE RoundEndPc(r.issue._current_phase, directory,
                                            Len(any_executed) + 1, len_already_executed)
         IN  /\ Acted(possible[idx], w, exc)
             /\ issue' = r.issue
             /\ any_executed' = Append(any_executed, possible[idx])
             /\ pc' = nextpc
             /\ NextRound(nextpc, possible, idx + 1)
    /\ UNCHANGED <<ds, auto_reward, dirs, current_dirno, directory,
                   len_already_executed, p>>
    /\ UNCHANGED <<log, everMatched, violation, decided, finished>>

\* line 107
Decide ==
    /\ pc = "alt"
    /\ \E decision \in (IF ds THEN Decisions(possible) ELSE {BogusLabel}) :
         LET d == decide_on_plugin(ds, possible, decision)
         IN  /\ pc' = IF d.raised THEN "aborted" ELSE "exec_alt"
             /\ p' = IF d.raised THEN p ELSE d.p
             /\ violation' = (violation \/ (ds /\ decision \notin Range(PossibleKIs(possible))))
    /\ decided' = IF ds THEN decided + 1 ELSE decided
    /\ UNCHANGED <<ds, auto_reward, issue, dirs, current_dirno, directory,
                   any_executed, len_already_executed, possible, idx>>
    /\ UNCHANGED <<log, acts, roundBase, cands, tested, raisedTests, everMatched,
                   lastFailed, setTo, jumps, finished>>

\* lines 108-109
ExecAlternative ==
    /\ pc = "exec_alt"
    /\ \E w \in ActWrites, exc \in BOOLEAN :
         LET r == execute_plugin_with_context(issue, w, exc)
         IN  /\ Acted(p, w, exc)
             /\ issue' = r.issue
             /\ pc' = IF r.propagated THEN "aborted"
                      ELSE AlternativeNextPc(r.issue._current_phase, directory)
    /\ UNCHANGED <<ds, auto_reward, dirs, current_dirno, directory, any_executed,
                   len_already_executed, possible, idx, p>>
    /\ UNCHANGED <<log, roundBase, cands, tested, raisedTests, everMatched,
                   violation, decided, finished>>

\* a policy that takes the candidate at the front of the list
PopFirstIndex(poss) == 1

\* line 111: possible.pop() takes the element at the last index
PopIndex(poss) == Len(poss)

\* lines 111-118
ExecSequential ==
    /\ pc = "seq"
    /\ \E w \in ActWrites, exc \in BOOLEAN :
         LET r == execute_plugin_with_context(issue, w, exc)
             last == possible[PopIndex(possible)]
             nextpc == IF r.propagated THEN "aborted"
                       ELSE RoundEndPc(r.issue._current_phase, directory,
                                       Len(any_executed) + 1, len_already_executed)
         IN  /\ Acted(last, w, exc)
             /\ issue' = r.issue
             /\ any_executed' = Append(any_executed, last)
             /\ pc' = nextpc
             /\ NextRound(nextpc, SubSeq(possible, 1, Len(possible) - 1), idx)
    /\ UNCHANGED <<ds, auto_reward, dirs, current_dirno, directory,
                   len_already_executed, p>>
    /\ UNCHANGED <<log, everMatched, violation, decided, finished>>

\* lines 119-123
PhaseEnd ==
    /\ pc = "phaseend"
    /\ issue' = [issue EXCEPT !._reward = RewardAfterPhase(@, auto_reward, Len(acts))]
    /\ current_dirno' = NextDirno(current_dirno, issue._current_phase, directory, dirs)
    /\ pc' = "while"
    /\ possible' = <<>>
    /\ idx' = 1
    /\ p' = NoPair
    /\ len_already_executed' = 0
    /\ any_executed' = <<>>
    /\ acts' = <<>>
    /\ roundBase' = 0
    /\ cands' = <<>>
    /\ tested' = <<>>
    /\ raisedTests' = {}
    /\ everMatched' = {}
    /\ lastFailed' = NoPair
    /\ decided' = 0
    /\ UNCHANGED <<ds, auto_reward, dirs, directory>>
    /\ UNCHANGED <<log, setTo, jumps, violation, finished>>

\* line 88 false: apply_all_plugins_on_value returns to process_issue
LoopExit ==
    /\ pc = "while"
    /\ ~(current_dirno < Len(dirs))
    /\ pc' = "returned"
    /\ UNCHANGED <<ds, auto_reward, issue, dirs, current_dirno, directory,
                   any_executed, len_already_executed, possible, idx, p, history>>

\* a hook that is called twice
finish_episode_twice(arbiter, n) == IF arbiter THEN n + 2 ELSE n

\* lines 79-80: `if self.ds: self.ds.finish_episode(issue)`; n counts the calls
finish_episode(arbiter, n) == IF arbiter THEN n + 1 ELSE n

\* lines 79-80
FinishEpisode ==
    /\ pc = "returned"
    /\ finished' = finish_episode(ds, finished)
    /\ pc' = "done"
    /\ UNCHANGED <<ds, auto_reward, issue, dirs, current_dirno, directory,
                   any_executed, len_already_executed, possible, idx, p>>
    /\ UNCHANGED <<log, acts, roundBase, cands, tested, raisedTests, everMatched,
                   lastFailed, setTo, jumps, violation, decided>>

Next ==
    \/ Start
    \/ PhaseStart
    \/ BuildCandidates
    \/ ExecParallel
    \/ Decide
    \/ ExecAlternative
    \/ ExecSequential
    \/ PhaseEnd
    \/ LoopExit
    \/ FinishEpisode

Spec == Init /\ [][Next]_vars


\* ------------------------------------------------------------------ claims
InInvocation == pc \in {"round", "par", "alt", "exec_alt", "seq", "phaseend"}
IsSequential(dir) == dir \in PhaseNames /\ ~IsParallel(dir) /\ ~IsAlternative(dir)
Last(s) == s[Len(s)]

\* C1: in every policy, once an act has left _current_phase different from
\* the phase being executed, nothing more of the invocation runs: no further
\* act, arbiter call or test happens while the two differ.
C1_JumpEndsRound ==
    pc \in {"round", "par", "alt", "exec_alt", "seq"} => issue._current_phase = directory

\* C2 as stated: every registered phase name an act wrote to _current_phase
\* during an invocation (the running phase's own name included) is the phase
\* of the next invocation, which starts with an empty already-run list.
C2_EveryWrittenPhaseIsNext ==
    [][(pc = "while" /\ setTo \cap PhaseNames # {})
          => /\ pc' = "round"
             /\ \A P \in setTo \cap PhaseNames : directory' = P
             /\ any_executed' = <<>>]_vars

\* C2 amended: when an invocation ends with _current_phase holding a
\* registered name other than the phase that ran, the next invocation is of
\* that phase and starts with an empty already-run list; when it ends with
\* the running phase's own name, the orchestrator moves on by one.
C2_JumpResolution ==
    [][(pc = "while" /\ log # <<>>)
          => IF issue._current_phase # directory /\ issue._current_phase \in PhaseNames
             THEN /\ pc' = "round"
                  /\ directory' = issue._current_phase
                  /\ any_executed' = <<>>
             ELSE \/ pc' = "returned" /\ Last(dirs) = directory
                  \/ /\ pc' = "round"
                     /\ \E i \in 1..(Len(dirs) - 1) :
                          dirs[i] = directory /\ dirs[i + 1] = directory']_vars

\* a jump back from the last phase to the first one has been resolved
C2_Witness ==
    /\ pc = "round"
    /\ Len(log) > 1
    /\ Last(log) = PhaseSeq
    /\ log[Len(log) - 1] = PhasePar
    /\ any_executed = <<>>


\* C3 as stated: an invocation of an alternative phase makes 0 or 1 act
\* call, 0 only when no candidate matched, and is over right after the act.
C3_ZeroOnlyWhenNoCandidate ==
    (IsAlternative(directory) /\ (InInvocation \/ pc = "aborted"))
        => /\ Len(acts) <= 1
           /\ Len(acts) = 1 => pc = "phaseend"
           /\ (pc \in {"phaseend", "aborted"} /\ Len(acts) = 0) => cands = <<>>

\* C3 amended: an invocation of an alternative phase makes 0 or 1 act call;
\* it makes none when no candidate matched or when decide_on_plugin raised
\* (the invocation then ends in that failure), one in every other case, and
\* it is over right after the act.
C3_AlternativeAtMostOnce ==
    (IsAlternative(directory) /\ (InInvocation \/ pc = "aborted"))
        => /\ Len(acts) <= 1
           /\ Len(acts) = 1 => pc = "phaseend"
           /\ pc = "phaseend" => (Len(acts) = 0 <=> cands = <<>>)
           /\ pc = "aborted" => (Len(acts) = 0 /\ cands # <<>>)

\* an alternative phase that had three candidates is over after one act
C3_Witness ==
    /\ IsAlternative(directory)
    /\ pc = "phaseend"
    /\ Len(cands) = 3
    /\ Len(acts) = 1

\* C4: in a parallel phase the acts of a round are exactly the candidates the
\* round was built with, each once and in order, and each is appended to the
\* already-run list; the round is left (and candidates are built again) only
\* when the whole batch has been executed.
C4_ParallelBatch ==
    [][pc = "par"
          => /\ any_executed = acts
             /\ SubSeq(acts, roundBase + 1, Len(acts)) = SubSeq(cands, 1, idx - 1)
             /\ idx <= Len(cands)
             /\ pc' # "par" => /\ idx = Len(cands)
                               /\ acts' = SubSeq(acts, 1, roundBase) \o cands
                               /\ any_executed' = acts'
                               /\ pc' \in {"round", "phaseend"}]_vars

\* a second round of a parallel phase starts after a batch of two
C4_Witness ==
    /\ IsParallel(directory)
    /\ pc = "round"
    /\ Len(any_executed) = 2
    /\ roundBase = 2

\* the phase invocations that have returned to the orchestrator
Completed == IF InInvocation \/ pc = "aborted" THEN Len(log) - 1 ELSE Len(log)

\* C5: the pass starts _reward at 0; afterwards _reward never decreases and
\* holds one increment for each phase invocation that has returned to the
\* orchestrator, whatever ran in it (nothing matched, a jump ended it, many
\* acts ran); a pass over the N phases that no act redirected ends with N
\* increments.
C5_RewardAccounting ==
    /\ [](pc # "start" => issue._reward = auto_reward * Completed)
    /\ []((pc = "done" /\ jumps = 0)
            => issue._reward = Cardinality(PhaseNames) * auto_reward)
    /\ [][pc # "start" => issue._reward' >= issue._reward]_vars

\* a pass with a redirection has ended after five invocations
C5_Witness ==
    /\ pc = "done"
    /\ jumps = 1
    /\ Len(log) = 5
    /\ issue._reward = 5 * auto_reward


\* the pass keeps running: it is one thread of control that is never suspended
FairSpec == Spec /\ WF_vars(Next)

\* C6 as stated: a sequential invocation in which no act wrote
\* _current_phase ends, and
\* the number of its rounds that executed a candidate (one act each) equals
\* the number of distinct pairs that matched during the invocation.
C6_RoundsEqualMatchedPairs ==
    (pc = "phaseend" /\ IsSequential(directory) /\ setTo = {})
        => Len(acts) = Cardinality(everMatched)

\* the most often a single test call yielded one pair
Multiplicity == MaxCtxList

\* C6 amended: a sequential invocation ends, and each of its executing
\* rounds makes one act call on a pair that matched in that round, so the
\* executed pairs are among the distinct pairs that ever matched and the
\* number of executing rounds is at least 1 when anything matched and at
\* most the number of those pairs times the most often one test list
\* repeated a pair; it equals neither in general (a pair that stops matching
\* before it is picked is never executed, a pair a list repeats is executed
\* again).
C6_SequentialTermination ==
    /\ []((IsSequential(directory) /\ InInvocation)
            => /\ any_executed = acts
               /\ Range(acts) \subseteq everMatched
               /\ Len(acts) <= Cardinality(everMatched) * Multiplicity
               /\ (pc = "phaseend" /\ everMatched # {}) => Len(acts) >= 1)
    /\ []((IsSequential(directory) /\ pc \in {"round", "seq"}) => <>(pc = "phaseend"))

\* a sequential invocation that executed fewer rounds than pairs matched
C6_Witness ==
    /\ pc = "phaseend"
    /\ IsSequential(directory)
    /\ setTo = {}
    /\ Len(acts) = 1
    /\ Cardinality(everMatched) = 2


\* C7: a build calls the test of every plugin of the phase, whichever of them
\* raise, and no candidate comes from a test that raised; an act that raises
\* inside a parallel batch is followed by the next candidate of the batch
\* (the other policies execute one candidate per round).
C7_Isolation ==
    [][/\ (pc \in {"par", "alt", "exec_alt", "seq"} \/ (pc = "phaseend" /\ tested # <<>>))
            => /\ tested = plugins[directory]
               /\ \A i \in 1..Len(cands) : cands[i][1] \notin raisedTests
       /\ (pc = "par" /\ idx < Len(possible))
            => /\ pc' = "par"
               /\ possible' = possible
               /\ idx' = idx + 1
               /\ acts' = Append(acts, possible[idx])]_vars

\* the first plugin's test raised, the first act of the batch raised, and the
\* second candidate is due
C7_Witness ==
    /\ pc = "par"
    /\ raisedTests = {plugins[directory][1]}
    /\ Len(possible) = 2
    /\ idx = 2
    /\ lastFailed = possible[1]

\* C8 as stated: an act that failed counts as run and is not called again on
\* its pair in the same invocation, the pass survives every plugin failure
\* (only a failed arbiter call ends it early) and the reward is still added.
C8_FailedPairNotRetried ==
    /\ pc = "seq" => Last(possible) # lastFailed
    /\ pc = "par" => possible[idx] # lastFailed
    /\ (lastFailed # NoPair /\ InInvocation /\ ~IsAlternative(directory))
          => lastFailed \in Range(any_executed)
    /\ pc = "aborted" => (IsAlternative(directory) /\ decided > 0 /\ acts = <<>>)
    /\ pc # "start" => issue._reward = auto_reward * Completed

\* C9: with an arbiter configured, an answer that is the label of no current
\* candidate ends the pass in a failure: no act of that invocation is called,
\* nothing is picked in its place, no later phase is invoked and the finish
\* hook is not reached.
C9_ArbiterViolationFatal ==
    violation
        => /\ ds
           /\ pc = "aborted"
           /\ IsAlternative(directory)
           /\ Last(log) = directory
           /\ acts = <<>>
           /\ p = NoPair
           /\ issue._reward = auto_reward * (Len(log) - 1)
           /\ finished = 0

\* the arbiter answered with no candidate's label although two were offered
C9_Witness ==
    /\ violation
    /\ pc = "aborted"
    /\ Len(cands) = 2

\* C10: as long as no act has written another phase name, the k-th phase
\* invoked is the k-th smallest registered name in Python's string order,
\* and the pass returns when every name has been invoked once and the index
\* stands behind the last.
C10_PhaseOrder ==
    jumps = 0
        => /\ \A k \in 1..Len(log) :
                /\ log[k] \in PhaseNames
                /\ Cardinality({n \in PhaseNames : StrLess(n, log[k])}) = k - 1
           /\ pc \in {"returned", "done"}
                => /\ Len(log) = Cardinality(PhaseNames)
                   /\ current_dirno = Len(dirs)
           /\ (pc = "while" /\ current_dirno = Len(dirs)) => ~ENABLED PhaseStart

\* an undisturbed pass is over: "10", "20-alternative", "9-parallel"
C10_Witness ==
    /\ pc = "done"
    /\ jumps = 0
    /\ log = <<PhaseSeq, PhaseAlt, PhasePar>>

\* C11: with an arbiter configured, finish_episode has been called exactly
\* once when the pass is over and not before: the one call is the step that
\* follows the return of apply_all_plugins_on_value, after the last phase
\* invocation has ended; a pass that an arbiter failure aborted never makes
\* the call.  Without an arbiter there is no call.
C11_FinishOnce ==
    /\ [](finished = IF ds /\ pc = "done" THEN 1 ELSE 0)
    /\ [](pc = "aborted" => (finished = 0 /\ ~ENABLED FinishEpisode))
    /\ [][finished' # finished
            => /\ pc = "returned"
               /\ pc' = "done"
               /\ current_dirno = Len(dirs)
               /\ acts = <<>>
               /\ issue._reward = auto_reward * Len(log)]_vars

\* a pass with an arbiter that decided and a redirection is over
C11_Witness ==
    /\ ds
    /\ pc = "done"
    /\ finished = 1
    /\ jumps = 1
    /\ Len(log) > Cardinality(PhaseNames)

\* C12 as stated: in a sequential or parallel phase no pair is executed more
\* than once in one invocation, whatever the tests return.
C12_NoReexecution ==
    (InInvocation /\ ~IsAlternative(directory))
        => \A i, j \in 1..Len(acts) : i # j => acts[i] # acts[j]

\* C13 as stated: whenever the arbiter answers with the label of one of the
\* current candidates, a candidate carrying that label is what the engine
\* goes on to execute, for every context value.
C13_LabelResolves ==
    [][(pc = "alt" /\ ds /\ ~violation')
          => /\ pc' = "exec_alt"
             /\ p' \in Range(possible)]_vars

\* C14 as stated: the arbiter's decide is called only in a round of an
\* alternative phase that has more than one candidate; a single candidate is
\* executed without a call.
C14_DecideOnlyOnChoice ==
    decided > 0 => (IsAlternative(directory) /\ Len(cands) > 1)

\* C15: a phase invocation that ends with _current_phase holding a name no
\* phase is registered under moves the index on by one: the orchestrator
\* goes on with the phase that follows the one that ran, or returns when
\* that one was the last; the pass does not fail and the phase that ran is
\* not invoked again.
C15_UnknownTargetAdvances ==
    /\ [][(pc = "phaseend" /\ issue._current_phase \notin PhaseNames)
            => /\ pc' = "while"
               /\ dirs[current_dirno + 1] = directory
               /\ current_dirno' = current_dirno + 1]_vars
    /\ [][(pc = "while" /\ log # <<>> /\ issue._current_phase \notin PhaseNames)
            => IF current_dirno = Len(dirs)
               THEN pc' = "returned"
               ELSE /\ pc' = "round"
                    /\ directory' = dirs[current_dirno + 1]
                    /\ directory' # directory
                    /\ StrLess(directory, directory')]_vars

\* the first phase ended with an unknown name in _current_phase and the index
\* stands at the second phase
C15_Witness ==
    /\ pc = "while"
    /\ issue._current_phase = UnknownPhase
    /\ directory = PhaseSeq
    /\ current_dirno = 1
    /\ Len(log) = 1

\* the position of plugin x in the plugin list of a phase
PluginPos(dir, x) == CHOOSE k \in 1..Len(plugins[dir]) : plugins[dir][k] = x

\* C16: a round of a sequential phase that has candidates executes exactly
\* one of them, the last element of the list built for the round (after the
\* pairs already run were taken out), which belongs to the last plugin in
\* list order that still has a candidate; the pair is appended to the
\* already-run list and the round is over.
C16_SequentialTakesLast ==
    [][pc = "seq"
          => /\ IsSequential(directory)
             /\ possible = cands
             /\ \A i \in 1..Len(cands) :
                  PluginPos(directory, cands[i][1]) <= PluginPos(directory, Last(cands)[1])
             /\ acts' = Append(acts, Last(cands))
             /\ any_executed' = Append(any_executed, Last(cands))
             /\ pc' \in {"round", "phaseend"}]_vars

\* two rounds of the sequential phase ran: the second plugin's pair first,
\* then the first plugin's
C16_Witness ==
    /\ pc = "round"
    /\ directory = PhaseSeq
    /\ any_executed = << <<"p2", CtxA>>, <<"p1", CtxA>> >>
    /\ everMatched = {<<"p1", CtxA>>, <<"p2", CtxA>>}

\* how many candidates one test result stands for
NCtx(r) ==
    CASE r.k = "list" -> Len(r.l)
      [] r.k = "value" -> 1
      [] OTHER -> 0

RECURSIVE Offset(_, _, _)
\* the number of candidates of the plugins in front of position k
Offset(res, plugs, k) ==
    IF k <= 1 THEN 0
    ELSE Offset(res, plugs, k - 1) + NCtx(res[plugs[k - 1]])

\* the list is laid out plugin by plugin in list order: a list result fills
\* its stretch element by element, a single value fills one place, a falsy
\* result or a test that raised fills none
WellBuilt(b, res, plugs) ==
    /\ Len(b) = Offset(res, plugs, Len(plugs) + 1)
    /\ \A k \in 1..Len(plugs) :
         LET x == plugs[k]
             r == res[x]
             o == Offset(res, plugs, k)
         IN  /\ r.k = "list" => \A i \in 1..Len(r.l) : b[o + i] = <<x, r.l[i]>>
             /\ r.k = "value" => b[o + 1] = <<x, r.c>>

\* the lists a build of a phase can return, over everything its tests can do
BuiltLists ==
    [dir \in PhaseNames |->
        {test_plugins_on_value(res, plugins[dir]).passed :
            res \in AllTestResults(plugins[dir])}]

\* every list the builder returns is laid out as its test results say
BuilderWellBuilt ==
    \A dir \in PhaseNames : \A res \in AllTestResults(plugins[dir]) :
        WellBuilt(test_plugins_on_value(res, plugins[dir]).passed, res, plugins[dir])

\* C17: whatever the tests of a phase return, the list test_plugins_on_value
\* builds holds the plugins in phase list order, one candidate per element
\* of a returned list in the order returned, one candidate for a single
\* truthy value and none for an empty or falsy value; the first round of an
\* invocation works on exactly such a list.
C17_CandidateConstruction ==
    [][(pc = "round" /\ any_executed = <<>>)
          => /\ BuilderWellBuilt
             /\ cands' \in BuiltLists[directory]
             /\ tested' = plugins[directory]]_vars

\* the first plugin yielded a list of two contexts, the second nothing, the
\* third one context
C17_Witness ==
    /\ pc = "alt"
    /\ raisedTests = {}
    /\ cands = << <<"p3", CtxColon>>, <<"p3", CtxA>>, <<"p5", CtxA>> >>

\* C18: in a sequential phase an act is one step of the pass, the step after
\* it is never another act, and every act is preceded by a build that called
\* the test of every plugin of the phase on the issue as the earlier acts
\* left it; no two acts of a pass overlap.
C18_RetestBetweenActs ==
    /\ [][pc' = "seq"
            => /\ pc = "round"
               /\ tested' = plugins[directory]
               /\ issue' = issue
               /\ acts' = acts
               /\ roundBase' = Len(acts)]_vars
    /\ [][(IsSequential(directory) /\ pc # "phaseend" /\ acts' # acts)
            => /\ pc = "seq"
               /\ acts' = Append(acts, Last(possible))
               /\ pc' \in {"round", "phaseend"}
               /\ tested' = <<>>]_vars
    /\ [][Len(acts') <= Len(acts) + 1]_vars

\* the second act of a sequential invocation is due, on a candidate built
\* after the first act had written the issue
C18_Witness ==
    /\ pc = "seq"
    /\ Len(acts) = 1
    /\ roundBase = 1
    /\ tested = plugins[directory]
    /\ setTo = {directory}

\* C19: candidates are built (the only place tests are called) only while
\* _current_phase holds the name of the phase being executed, which is the
\* phase the index stands at.
C19_TestsSeeOwnPhase ==
    /\ [](pc = "round"
            => /\ issue._current_phase = directory
               /\ directory = dirs[current_dirno + 1])
    /\ [][(tested = <<>> /\ tested' # <<>>)
            => /\ pc = "round"
               /\ issue._current_phase = directory
               /\ issue' = issue]_vars

\* a parallel batch left and restored the phase name; candidates are built again
C19_Witness ==
    /\ pc = "round"
    /\ directory = PhasePar
    /\ PhaseSeq \in setTo
    /\ Len(any_executed) = 2

\* C20: without an arbiter, an alternative phase that has candidates executes
\* the first element of the built list, which belongs to the first plugin in
\* list order that has a candidate; decide is not called and the pass never
\* ends in a failure.
C20_NoArbiterTakesFirst ==
    ~ds => /\ pc # "aborted"
           /\ decided = 0
           /\ ~violation
           /\ pc = "exec_alt" => p = cands[1]
           /\ (IsAlternative(directory) /\ pc = "phaseend" /\ cands # <<>>)
                => /\ acts = <<cands[1]>>
                   /\ \A i \in 1..Len(cands) :
                        PluginPos(directory, cands[1][1]) <= PluginPos(directory, cands[i][1])

\* without an arbiter the first of three candidates was executed
C20_Witness ==
    /\ ~ds
    /\ IsAlternative(directory)
    /\ pc = "phaseend"
    /\ cands = << <<"p3", CtxColon>>, <<"p4", CtxA>>, <<"p5", CtxA>> >>
    /\ acts = << <<"p3", CtxColon>> >>

=============================================================================
